---- MODULE Spec2Model ----
(***************************************************************************)
(* CHIP-8 core of p-obrthr/chip8 (src/rust/src/main.rs).                   *)
(*                                                                         *)
(* The machine state (Chip8State) sits behind a Mutex shared by two        *)
(* threads: the spawned cycle thread (lock, cycle(), unlock, sleep) and    *)
(* the main thread, which loads the ROM, spawns the cycle thread and then  *)
(* loops taking a clone of the display under the lock.                     *)
(*                                                                         *)
(* A u64 display row is modelled by the set of its 1-bit positions         *)
(* (0 = least significant); pixel (x, y) is bit 63 - x of row y.           *)
(***************************************************************************)
EXTENDS Integers, Naturals, Sequences, FiniteSets, TLC

VARIABLES
    memory,          \* Chip8State.memory : Vec<u8>, 4096 bytes
    v,               \* Chip8State.v      : Vec<u8>, 16 registers
    pc,              \* Chip8State.pc     : u16
    i,               \* Chip8State.i      : u16
    display,         \* Chip8State.display: Vec<u64>, 32 rows
    holder,          \* owner of the Mutex guard: "none", "cycle" or "main"
    poisoned,        \* the Mutex is poisoned (a thread panicked holding it)
    main,            \* position of the main thread
    cyc,             \* position of the cycle thread
    inst,            \* cycle(): the fetched Instruction (its u16)
    row,             \* 0xD: the row loop counter
    x_start,         \* 0xD: local x_start
    y_start,         \* 0xD: local y_start
    grid,            \* the render loop's snapshot ({} before the first one)
    out,             \* the "unknown opcode" lines printed, as opcode values
    overflow_checks, \* build profile: arithmetic overflow panics (debug) or wraps
    cycles,          \* number of completed cycle() calls
    bytes,           \* main: the bytes of the ROM file
    fault,           \* the panic that ended a thread ("none" while there is none)
    hist             \* history: the machine state at the entry of each cycle()

vars == <<memory, v, pc, i, display, holder, poisoned, main, cyc, inst, row,
          x_start, y_start, grid, out, overflow_checks, cycles, bytes, fault, hist>>

----------------------------------------------------------------------------
(* Program constants *)

MemSize == 4096
RomBase == 512
NumRegs == 16
ScreenW == 64
ScreenH == 32
SpriteW == 8
VF == 15

(* Bounds of the model: the cycle thread is followed for MaxCycles cycles, and
   for RunCycles cycles on the ROMs that are run to the end of the memory. *)
MaxCycles == 5

RunCycles == 1000

----------------------------------------------------------------------------
(* Fixed-width arithmetic, computed bit by bit as the machine does *)

RECURSIVE BitAnd(_, _)
BitAnd(a, b) ==
    IF a = 0 \/ b = 0 THEN 0
    ELSE (IF a % 2 = 1 /\ b % 2 = 1 THEN 1 ELSE 0) + 2 * BitAnd(a \div 2, b \div 2)

RECURSIVE BitOr(_, _)
BitOr(a, b) ==
    IF a = 0 THEN b
    ELSE IF b = 0 THEN a
    ELSE (IF a % 2 = 1 \/ b % 2 = 1 THEN 1 ELSE 0) + 2 * BitOr(a \div 2, b \div 2)

Shr(a, k) == a \div (2 ^ k)

Shl16(a, k) == (a * (2 ^ k)) % 65536

AddU16(a, b) == (a + b) % 65536

AddU8(a, b) == (a + b) % 256

AddU8Overflows(a, b) == a + b > 255

----------------------------------------------------------------------------
(* Instruction: the decoder *)

(* faulty variant: the two bytes paired low byte first *)
InstructionNewLittleEndian(first, second) == BitOr(Shl16(second, 8), first)

InstructionNew(first, second) == BitOr(Shl16(first, 8), second)

Indicator(op) == Shr(BitAnd(op, 61440), 12)

X(op) == Shr(BitAnd(op, 3840), 8)

Y(op) == Shr(BitAnd(op, 240), 4)

N(op) == BitAnd(op, 15)

NN(op) == BitAnd(op, 255)

NNN(op) == BitAnd(op, 4095)

----------------------------------------------------------------------------
(* Chip8State::new and get_empty_grid *)

EmptyGrid == [r \in 0..(ScreenH - 1) |-> {}]

NewMemory == [a \in 0..(MemSize - 1) |-> 0]

NewV == [r \in 0..(NumRegs - 1) |-> 0]

----------------------------------------------------------------------------
(* decode_and_execute: the arms of the match, as functions of the state *)

(* faulty variant: the skip steps over one byte *)
SkipIfEqualOneByte(V, PC, op) == IF V[X(op)] = NN(op) THEN AddU16(PC, 1) ELSE PC

SkipIfEqual(V, PC, op) == IF V[X(op)] = NN(op) THEN AddU16(PC, 2) ELSE PC

(* faulty variant: the test of 0x3 copied into 0x4 *)
SkipIfNotEqualAsEqual(V, PC, op) == IF V[X(op)] = NN(op) THEN AddU16(PC, 2) ELSE PC

SkipIfNotEqual(V, PC, op) == IF V[X(op)] # NN(op) THEN AddU16(PC, 2) ELSE PC

LoadImmediate(V, op) == [V EXCEPT ![X(op)] = NN(op)]

AddImmediate(V, op) == [V EXCEPT ![X(op)] = AddU8(V[X(op)], NN(op))]

(* `+=` on u8 panics on overflow when the build checks overflow *)
AddImmediatePanics(V, op, checks) == checks /\ AddU8Overflows(V[X(op)], NN(op))

(* faulty variant: only the sub-operation 0 of the 0x8 family copies *)
CopyRegisterWhenNIsZero(V, op) == IF N(op) = 0 THEN [V EXCEPT ![X(op)] = V[Y(op)]] ELSE V

CopyRegister(V, op) == [V EXCEPT ![X(op)] = V[Y(op)]]

LoadIndex(op) == NNN(op)

(* the classes with an arm of their own; every other class takes `_` *)
DispatchClasses == {0, 1, 3, 4, 6, 7, 8, 10, 13}

(* faulty variant: no arm for class 0x1 *)
TakesDefaultArmWithoutJumpArm(op) == Indicator(op) \notin (DispatchClasses \ {1})

TakesDefaultArm(op) == Indicator(op) \notin DispatchClasses

(* what the fetched opcode prints *)
Diagnostic(op) == IF TakesDefaultArm(op) THEN <<op>> ELSE <<>>

ExecV(V, op) ==
    CASE Indicator(op) = 6 -> LoadImmediate(V, op)
      [] Indicator(op) = 7 -> AddImmediate(V, op)
      [] Indicator(op) = 8 -> CopyRegister(V, op)
      [] OTHER -> V

(* faulty variant: class 0x1 given the jump semantics of the full instruction set *)
ExecPCWithJump(V, PC, op) ==
    CASE Indicator(op) = 1 -> NNN(op)
      [] Indicator(op) = 3 -> SkipIfEqual(V, PC, op)
      [] Indicator(op) = 4 -> SkipIfNotEqual(V, PC, op)
      [] OTHER -> PC

(* faulty variant: class 0x2 given the call semantics of the full instruction set *)
ExecPCWithCall(V, PC, op) ==
    CASE Indicator(op) = 2 -> NNN(op)
      [] Indicator(op) = 3 -> SkipIfEqual(V, PC, op)
      [] Indicator(op) = 4 -> SkipIfNotEqual(V, PC, op)
      [] OTHER -> PC

ExecPC(V, PC, op) ==
    CASE Indicator(op) = 3 -> SkipIfEqual(V, PC, op)
      [] Indicator(op) = 4 -> SkipIfNotEqual(V, PC, op)
      [] OTHER -> PC

ExecI(I, op) == IF Indicator(op) = 10 THEN LoadIndex(op) ELSE I

----------------------------------------------------------------------------
(* 0xD: the sprite draw *)

(* faulty variant: the origin read after the collision flag is cleared *)
XStartAfterClear(V, op) == BitAnd([V EXCEPT ![VF] = 0][X(op)], 63)

XStart(V, op) == BitAnd(V[X(op)], 63)

YStart(V, op) == BitAnd(V[Y(op)], 31)

(* faulty variant: the mask counted from the least significant bit *)
MaskBitFromLsb(x) == x

(* bit position of `1u64 << (63 - x)` *)
MaskBit(x) == (ScreenW - 1) - x

(* faulty variant: no test of the right edge *)
OffRightNever(x) == FALSE

(* `x >= 64 { break }` *)
OffRight(x) == x >= ScreenW

(* `y >= 32 { break }` *)
OffBottom(y) == y >= ScreenH

SpritePixel(sprite_byte, bit) == BitAnd(Shr(sprite_byte, 7 - bit), 1) # 0

(* faulty variant: the pixel set instead of toggled *)
OrBit(word, b) == word \cup {b}

(* `display[y] ^= mask` on the set of 1-bits of the row *)
XorBit(word, b) == IF b \in word THEN word \ {b} ELSE word \cup {b}

(* `if screen_pixel { v[0xF] = 1 }` *)
Collide(vf, screen_pixel) == IF screen_pixel THEN 1 ELSE vf

(* the `for bit in 0..8` loop on one row: the row's word and v[0xF] after it *)
RECURSIVE DrawBits(_, _, _, _, _)
DrawBits(word, vf, sprite_byte, xs, bit) ==
    IF bit >= SpriteW THEN [word |-> word, vf |-> vf]
    ELSE LET x == xs + bit IN
         IF OffRight(x) THEN [word |-> word, vf |-> vf]
         ELSE IF ~SpritePixel(sprite_byte, bit)
              THEN DrawBits(word, vf, sprite_byte, xs, bit + 1)
              ELSE DrawBits(XorBit(word, MaskBit(x)),
                            Collide(vf, MaskBit(x) \in word),
                            sprite_byte, xs, bit + 1)

----------------------------------------------------------------------------
(* cycle() as a function: the machine after one whole call made on the machine
   e, with nothing running beside it; ok is FALSE when the call panics *)

Outcome(V, PC, I, D, O, ok) ==
    [v |-> V, pc |-> PC, i |-> I, display |-> D, out |-> O, ok |-> ok]

(* the `for row in 0..inst.n()` loop from row r on *)
RECURSIVE DrawRows(_, _, _, _, _, _, _, _)
DrawRows(mem, I, D, vf, xs, ys, n, r) ==
    IF r >= n THEN [display |-> D, vf |-> vf, ok |-> TRUE]
    ELSE IF AddU16(I, r) >= MemSize THEN [display |-> D, vf |-> vf, ok |-> FALSE]
    ELSE IF OffBottom(ys + r) THEN [display |-> D, vf |-> vf, ok |-> TRUE]
    ELSE LET d == DrawBits(D[ys + r], vf, mem[AddU16(I, r)], xs, 0)
         IN  DrawRows(mem, I, [D EXCEPT ![ys + r] = d.word], d.vf, xs, ys, n, r + 1)

CycleResult(e, checks) ==
    IF e.pc + 1 >= MemSize
    THEN Outcome(e.v, e.pc, e.i, e.display, e.out, FALSE)
    ELSE LET op == InstructionNew(e.memory[e.pc], e.memory[e.pc + 1])
             npc == AddU16(e.pc, 2)
         IN  IF Indicator(op) = 13
             THEN LET d == DrawRows(e.memory, e.i, e.display, 0, XStart(e.v, op),
                                    YStart(e.v, op), N(op), 0)
                  IN  Outcome([e.v EXCEPT ![VF] = d.vf], npc, e.i, d.display, e.out, d.ok)
             ELSE IF Indicator(op) = 7 /\ AddImmediatePanics(e.v, op, checks)
             THEN Outcome(e.v, npc, e.i, e.display, e.out, FALSE)
             ELSE Outcome(ExecV(e.v, op), ExecPC(e.v, npc, op), ExecI(e.i, op),
                          e.display, e.out \o Diagnostic(op), TRUE)

----------------------------------------------------------------------------
(* ROM images *)

W(a, b, c, d) == a * 4096 + b * 256 + c * 16 + d

(* a program's words as the bytes of its file, high byte first *)
Bytes(prog) ==
    [k \in 1..(2 * Len(prog)) |->
        IF k % 2 = 1 THEN prog[(k + 1) \div 2] \div 256 ELSE prog[k \div 2] % 256]

Zeros(len) == [k \in 1..len |-> 0]

(* load immediates and the index register *)
LoadPrograms ==
    { <<W(6, x, 0, 5), W(6, y, 0, 10), W(10, 2, 3, 0)>> :
        x \in {0, 15}, y \in {1, 15} }

(* add immediate, with and without overflow, on a general register and on VF *)
AddPrograms ==
    { <<W(6, 15, 0, 1), W(6, x, a \div 16, a % 16), W(7, x, b \div 16, b % 16),
        W(7, x, b \div 16, b % 16)>> :
        x \in {0, 15}, a \in {0, 250}, b \in {0, 10, 255} }

(* conditional skips, taken and not taken *)
SkipPrograms ==
    { <<W(6, x, 0, a), W(c, x, 0, b), W(6, 1, 0, 1), W(6, 2, 0, 2)>> :
        x \in {0, 15}, a \in {0, 5}, b \in {0, 5, 6}, c \in {3, 4} }

(* one word of every class, run on a machine with registers, i and pixels set *)
ClassWords ==
    { W(0, 0, 0, 0), W(0, 0, 14, 0), W(0, 0, 14, 14), W(0, 1, 2, 3),
      W(1, 2, 0, 0), W(1, 15, 15, 15),
      W(2, 2, 0, 0), W(5, 0, 0, 0), W(5, 1, 2, 0), W(9, 0, 1, 0),
      W(11, 2, 0, 0), W(12, 0, 15, 15), W(14, 0, 9, 14), W(15, 0, 1, 14),
      W(15, 15, 15, 15) }

ClassPrograms ==
    { <<W(6, 0, 0, 5), W(10, 2, 0, 0), W(13, 0, 0, 2), w, w>> : w \in ClassWords }

(* register copies, every low nibble *)
CopyPrograms ==
    { <<W(6, 0, 0, 5), W(6, 15, 0, 9), W(8, xy[1], xy[2], n)>> :
        xy \in {<<1, 0>>, <<15, 0>>, <<0, 15>>, <<0, 0>>}, n \in 0..15 }

(* sprite draws: origin on screen, at the edges and wrapped; the sprite is the
   program's own bytes, or lies at the end of memory *)
DrawOrigins == {<<0, 0>>, <<60, 30>>, <<67, 33>>, <<63, 31>>, <<255, 255>>}

DrawPrograms ==
    { <<W(6, 0, o[1] \div 16, o[1] % 16), W(6, 1, o[2] \div 16, o[2] % 16),
        W(10, a[1], a[2], a[3]), W(13, 0, 1, n), W(13, 0, 1, m)>> :
        o \in DrawOrigins, a \in {<<2, 0, 0>>, <<15, 15, 14>>},
        n \in {0, 1, 5}, m \in {2, 5} }

(* sprite draws positioned by VF *)
FlagDrawPrograms ==
    { <<W(6, 15, o \div 16, o % 16), W(10, 2, 0, 0), W(13, xy[1], xy[2], n),
        W(13, xy[1], xy[2], n)>> :
        o \in {0, 35, 60}, xy \in {<<15, 15>>, <<15, 0>>, <<0, 15>>}, n \in {0, 1, 3} }

Programs ==
    LoadPrograms \cup AddPrograms \cup SkipPrograms \cup ClassPrograms
        \cup CopyPrograms \cup DrawPrograms \cup FlagDrawPrograms

(* the ROM files: the programs, the 6-byte ROM of the specification, the empty
   file, the longest legal file, the shortest illegal one and an illegal one
   that begins with a program *)
EndToEndRom == <<96, 5, 97, 10, 162, 48>>

OversizeRom ==
    [k \in 1..(MemSize - RomBase + 2) |-> IF k <= 6 THEN EndToEndRom[k] ELSE 0]

Roms ==
    {Bytes(p) : p \in Programs}
        \cup {EndToEndRom, Zeros(0), Zeros(MemSize - RomBase), Zeros(MemSize - RomBase + 1),
              OversizeRom}

(* a ROM that fills the memory: a sprite draw, a jump, skips taken and not
   taken, and from its word 9 on a taken skip in every word, so that every
   second word is run up to the last one, at 0xFFE *)
LongProgram ==
    [k \in 1..((MemSize - RomBase) \div 2) |->
        CASE k = 1 -> W(10, 2, 0, 0)
          [] k = 2 -> W(13, 0, 0, 1)
          [] k = 3 -> W(1, 2, 0, 0)
          [] k = 4 -> W(3, 0, 0, 1)
          [] k = 5 -> W(4, 0, 0, 0)
          [] k = 6 -> W(3, 0, 0, 0)
          [] k = 7 -> W(0, 0, 0, 0)
          [] k = 8 -> W(4, 0, 0, 1)
          [] OTHER -> W(3, 0, 0, 0)]

LongRoms == {Bytes(LongProgram)}

(* the number of cycles the model follows a ROM for *)
CycleBudget(rom) == IF rom \in LongRoms THEN RunCycles ELSE MaxCycles

----------------------------------------------------------------------------
(* The Mutex *)

(* faulty variant: the display read without waiting for the guard *)
LockWithoutWaiting(h) == TRUE

(* Mutex::lock returns once no guard is alive *)
TryLock(h) == h = "none"

(* the process lives until main returns or panics *)
Alive == main \notin {"closed", "panicked"}

----------------------------------------------------------------------------
Init ==
    /\ memory = NewMemory
    /\ v = NewV
    /\ pc = RomBase
    /\ i = 0
    /\ display = EmptyGrid
    /\ holder = "none"
    /\ poisoned = FALSE
    /\ main = "load"
    /\ cyc = "unborn"
    /\ inst = 0
    /\ row = 0
    /\ x_start = 0
    /\ y_start = 0
    /\ grid = {}
    /\ out = <<>>
    /\ overflow_checks \in BOOLEAN
    /\ cycles = 0
    /\ bytes \in Roms
    /\ fault = "none"
    /\ hist = <<>>

(* faulty variant: the ROM copied to address 0 *)
CopyFromSliceAtZero(mem, src) ==
    [a \in 0..(MemSize - 1) |-> IF a < Len(src) THEN src[a + 1] ELSE mem[a]]

(* faulty variant: the ROM copied one byte early, to 0x1FF *)
CopyFromSliceOneEarly(mem, src) ==
    [a \in 0..(MemSize - 1) |->
        IF a >= RomBase - 1 /\ a < RomBase - 1 + Len(src) THEN src[a - RomBase + 2]
        ELSE mem[a]]

(* memory[0x200..0x200 + bytes.len()].copy_from_slice(&bytes) *)
CopyFromSlice(mem, src) ==
    [a \in 0..(MemSize - 1) |->
        IF a >= RomBase /\ a < RomBase + Len(src) THEN src[a - RomBase + 1] ELSE mem[a]]

(* faulty variant: no range check, the copy stops at the end of the memory *)
SliceNeverOutOfRange(src) == FALSE

(* the slice range panics when it ends past the memory *)
SliceOutOfRange(src) == RomBase + Len(src) > MemSize

LoadRom ==
    /\ main = "load"
    /\ IF SliceOutOfRange(bytes)
       THEN /\ main' = "panicked"
            /\ fault' = "slice range"
            /\ UNCHANGED memory
       ELSE /\ memory' = CopyFromSlice(memory, bytes)
            /\ main' = "spawn"
            /\ UNCHANGED fault
    /\ UNCHANGED <<v, pc, i, display, holder, poisoned, cyc, inst, row, x_start,
                   y_start, grid, out, overflow_checks, cycles, bytes, hist>>

Spawn ==
    /\ main = "spawn"
    /\ main' = "loop"
    /\ cyc' = "lock"
    /\ UNCHANGED <<memory, v, pc, i, display, holder, poisoned, inst, row, x_start,
                   y_start, grid, out, overflow_checks, cycles, bytes, fault, hist>>

(* the cycle thread: chip8.lock().unwrap() *)
CycleLock ==
    /\ Alive
    /\ cyc = "lock"
    /\ cycles < CycleBudget(bytes)
    /\ TryLock(holder)
    /\ IF poisoned
       THEN cyc' = "panicked" /\ fault' = "poisoned lock" /\ UNCHANGED holder
       ELSE cyc' = "fetch" /\ holder' = "cycle" /\ UNCHANGED fault
    /\ UNCHANGED <<memory, v, pc, i, display, poisoned, main, inst, row, x_start,
                   y_start, grid, out, overflow_checks, cycles, bytes, hist>>

(* a panic of the cycle thread inside cycle(): the guard is dropped while
   unwinding, which poisons the Mutex, and the thread ends *)
CyclePanic(why) ==
    /\ cyc' = "panicked"
    /\ fault' = why
    /\ holder' = "none"
    /\ poisoned' = TRUE

(* the history keeps the entries of the latest MaxCycles + 1 cycles *)
Remember(h, e) ==
    IF Len(h) > MaxCycles THEN Append(Tail(h), e) ELSE Append(h, e)

Entry(op) ==
    [inst |-> op, memory |-> memory, v |-> v, pc |-> pc, i |-> i,
     display |-> display, out |-> out]

(* cycle(): the fetch, the pc advance and the dispatch; the rows of a sprite
   are drawn by DrawRow *)
CycleFetch ==
    /\ Alive
    /\ cyc = "fetch"
    /\ IF pc + 1 >= MemSize
       THEN /\ CyclePanic("index pc")
            /\ UNCHANGED <<v, pc, i, display, inst, row, x_start, y_start, out, hist>>
       ELSE LET op == InstructionNew(memory[pc], memory[pc + 1])
                npc == AddU16(pc, 2)
            IN  /\ inst' = op
                /\ hist' = Remember(hist, Entry(op))
                /\ IF Indicator(op) = 13
                   THEN /\ x_start' = XStart(v, op)
                        /\ y_start' = YStart(v, op)
                        /\ v' = [v EXCEPT ![VF] = 0]
                        /\ row' = 0
                        /\ pc' = npc
                        /\ cyc' = IF N(op) = 0 THEN "unlock" ELSE "draw"
                        /\ UNCHANGED <<i, display, out, holder, poisoned, fault>>
                   ELSE IF Indicator(op) = 7 /\ AddImmediatePanics(v, op, overflow_checks)
                   THEN /\ pc' = npc
                        /\ CyclePanic("add overflow")
                        /\ UNCHANGED <<v, i, display, out, row, x_start, y_start>>
                   ELSE /\ v' = ExecV(v, op)
                        /\ pc' = ExecPC(v, npc, op)
                        /\ i' = ExecI(i, op)
                        /\ out' = out \o Diagnostic(op)
                        /\ cyc' = "unlock"
                        /\ UNCHANGED <<display, row, x_start, y_start, holder, poisoned,
                                       fault>>
    /\ UNCHANGED <<memory, main, grid, overflow_checks, cycles, bytes>>

(* one iteration of `for row in 0..inst.n()` *)
DrawRow ==
    /\ Alive
    /\ cyc = "draw"
    /\ LET addr == AddU16(i, row) IN
       IF addr >= MemSize
       THEN /\ CyclePanic("index sprite")
            /\ UNCHANGED <<v, display, row>>
       ELSE LET sprite_byte == memory[addr]
                y == y_start + row
            IN  IF OffBottom(y)
                THEN /\ cyc' = "unlock"
                     /\ UNCHANGED <<v, display, row, holder, poisoned, fault>>
                ELSE LET r == DrawBits(display[y], v[VF], sprite_byte, x_start, 0)
                     IN  /\ display' = [display EXCEPT ![y] = r.word]
                         /\ v' = [v EXCEPT ![VF] = r.vf]
                         /\ row' = row + 1
                         /\ cyc' = IF row + 1 >= N(inst) THEN "unlock" ELSE "draw"
                         /\ UNCHANGED <<holder, poisoned, fault>>
    /\ UNCHANGED <<memory, pc, i, main, inst, x_start, y_start, grid, out,
                   overflow_checks, cycles, bytes, hist>>

(* cycle() has returned: the guard is dropped, the thread sleeps 16 ms *)
CycleUnlock ==
    /\ Alive
    /\ cyc = "unlock"
    /\ holder' = "none"
    /\ cycles' = cycles + 1
    /\ cyc' = "lock"
    /\ UNCHANGED <<memory, v, pc, i, display, poisoned, main, inst, row, x_start,
                   y_start, grid, out, overflow_checks, bytes, fault, hist>>

(* the render loop: chip8.lock().unwrap() *)
RenderLock ==
    /\ main = "loop"
    /\ TryLock(holder)
    /\ IF poisoned
       THEN main' = "panicked" /\ UNCHANGED <<holder, fault>>
       ELSE main' = "clone" /\ holder' = "main" /\ UNCHANGED fault
    /\ UNCHANGED <<memory, v, pc, i, display, poisoned, cyc, inst, row, x_start,
                   y_start, grid, out, overflow_checks, cycles, bytes, hist>>

(* faulty variant: the display taken out of the machine instead of cloned *)
RenderCloneTaking ==
    /\ main = "clone"
    /\ grid' = {display}
    /\ display' = EmptyGrid
    /\ holder' = "none"
    /\ main' = "loop"
    /\ UNCHANGED <<memory, v, pc, i, poisoned, cyc, inst, row, x_start,
                   y_start, out, overflow_checks, cycles, bytes, fault, hist>>

(* .display.clone(); the temporary guard is dropped at the end of the statement *)
RenderClone ==
    /\ main = "clone"
    /\ grid' = {display}
    /\ holder' = "none"
    /\ main' = "loop"
    /\ UNCHANGED <<memory, v, pc, i, display, poisoned, cyc, inst, row, x_start,
                   y_start, out, overflow_checks, cycles, bytes, fault, hist>>

(* rl.window_should_close(): main returns and the process ends *)
WindowClose ==
    /\ main = "loop"
    /\ main' = "closed"
    /\ UNCHANGED <<memory, v, pc, i, display, holder, poisoned, cyc, inst, row,
                   x_start, y_start, grid, out, overflow_checks, cycles, bytes, fault, hist>>

Next ==
    \/ LoadRom
    \/ Spawn
    \/ CycleLock
    \/ CycleFetch
    \/ DrawRow
    \/ CycleUnlock
    \/ RenderLock
    \/ RenderClone
    \/ WindowClose

Spec == Init /\ [][Next]_vars

----------------------------------------------------------------------------
(* The decoder on its own: the machine loaded with one instruction word, whose
   bytes take values that give every indicator, x, y and n, each with two
   different neighbours; the cycle thread fetches and dispatches it. *)

NibblePairs == {16 * k + (15 - k) : k \in 0..15} \cup {16 * k + k : k \in 0..15}

SecondBytes == NibblePairs \cup {224, 238}

DecodeRoms == { <<first, second>> : first \in NibblePairs, second \in SecondBytes }

InitDecode ==
    /\ memory = NewMemory
    /\ v = NewV
    /\ pc = RomBase
    /\ i = 0
    /\ display = EmptyGrid
    /\ holder = "none"
    /\ poisoned = FALSE
    /\ main = "load"
    /\ cyc = "unborn"
    /\ inst = 0
    /\ row = 0
    /\ x_start = 0
    /\ y_start = 0
    /\ grid = {}
    /\ out = <<>>
    /\ overflow_checks \in BOOLEAN
    /\ cycles = 0
    /\ bytes \in DecodeRoms
    /\ fault = "none"
    /\ hist = <<>>

(* The machine on every ROM, the one that is run to the end of the memory
   included *)
InitRun ==
    /\ memory = NewMemory
    /\ v = NewV
    /\ pc = RomBase
    /\ i = 0
    /\ display = EmptyGrid
    /\ holder = "none"
    /\ poisoned = FALSE
    /\ main = "load"
    /\ cyc = "unborn"
    /\ inst = 0
    /\ row = 0
    /\ x_start = 0
    /\ y_start = 0
    /\ grid = {}
    /\ out = <<>>
    /\ overflow_checks \in BOOLEAN
    /\ cycles = 0
    /\ bytes \in Roms \cup LongRoms
    /\ fault = "none"
    /\ hist = <<>>

SpecRun == InitRun /\ [][Next]_vars

NextDecode ==
    \/ LoadRom
    \/ Spawn
    \/ CycleLock
    \/ CycleFetch

SpecDecode == InitDecode /\ [][NextDecode]_vars

----------------------------------------------------------------------------
(* Vocabulary of the properties.  The fields of an opcode and the pixels of a
   display are written here with plain arithmetic, as the specification
   states them, not with the operators of the model above. *)

Last == hist[Len(hist)]

(* cycle() has returned and its guard is not yet dropped *)
Returned == cyc = "unlock" /\ Len(hist) > 0

ClassOf(op) == op \div 4096

FieldX(op) == (op \div 256) % 16

FieldY(op) == (op \div 16) % 16

FieldN(op) == op % 16

FieldNN(op) == op % 256

FieldNNN(op) == op % 4096

(* the render loop's reading of a snapshot: (row >> (63 - x)) & 1 *)
Painted(g, x, y) == (63 - x) \in g[y]

(* bit `bit` (0 = leftmost) of the sprite row `r` of the draw entered at e *)
SpriteBit(e, r, bit) == (e.memory[e.i + r] \div (2 ^ (7 - bit))) % 2 = 1

OriginX(e) == e.v[FieldX(e.inst)] % 64

OriginY(e) == e.v[FieldY(e.inst)] % 32

(* the <<row, bit>> cells of the sprite of the draw entered at e that lie on
   the screen *)
OnScreenCells(e) ==
    { c \in (0..(FieldN(e.inst) - 1)) \X (0..7) :
        OriginX(e) + c[2] <= 63 /\ OriginY(e) + c[1] <= 31 }

(* the on-screen cells whose sprite bit is 1 *)
SetCells(e) == { c \in OnScreenCells(e) : SpriteBit(e, c[1], c[2]) }

CellPainted(g, e, c) == Painted(g, OriginX(e) + c[2], OriginY(e) + c[1])

(* the classes without an arm in decode_and_execute *)
UnlistedClasses == {2, 5, 9, 11, 12, 14, 15}

(* the opcodes outside the dispatch table of the specification *)
OutsideTable(op) ==
    \/ ClassOf(op) \in UnlistedClasses
    \/ ClassOf(op) = 0 /\ op # 224

----------------------------------------------------------------------------
(* C1: every cycle() call runs to completion: no fetch, pc advance or opcode
   panics the cycle thread, in any state reachable from the loaded machine. *)
C1_EveryCycleCompletes == cyc # "panicked"

(* C2: the snapshot the render loop holds is always the display as it was at a
   cycle boundary (at the entry of some cycle(), or after the latest one
   returned), never a display between two rows of a sprite. *)
BoundaryDisplays ==
    {hist[k].display : k \in 1..Len(hist)}
        \cup (IF cyc \in {"unborn", "lock", "fetch", "unlock"} THEN {display} ELSE {})

C2_SnapshotAtCycleBoundary == grid \subseteq BoundaryDisplays

(* a non-blank snapshot of an earlier boundary is held while a later draw is
   between two of its rows *)
C2_Witness ==
    /\ cyc = "draw"
    /\ row > 0
    /\ grid # {}
    /\ grid # {EmptyGrid}
    /\ display \notin grid
    /\ display # Last.display

(* C3: when a 0xD draw has returned, every on-screen cell of the sprite whose
   bit is 1 is toggled and every one whose bit is 0 is as before, and v[0xF]
   is 1 exactly when one of the toggled pixels was set before the draw. *)
C3_SpriteDrawXorCollision ==
    (Returned /\ ClassOf(Last.inst) = 13) =>
        /\ \A c \in OnScreenCells(Last) :
              CellPainted(display, Last, c) =
                  (CellPainted(Last.display, Last, c) # SpriteBit(Last, c[1], c[2]))
        /\ v[15] = IF \E c \in SetCells(Last) : CellPainted(Last.display, Last, c)
                   THEN 1 ELSE 0

(* a draw that erased some pixels (a collision) and lit others *)
C3_Witness ==
    /\ Returned
    /\ ClassOf(Last.inst) = 13
    /\ v[15] = 1
    /\ \E c \in SetCells(Last) : CellPainted(display, Last, c)
    /\ \E c \in SetCells(Last) : ~CellPainted(display, Last, c)

(* C4: two successive draws of the same sprite (same height, same i, same
   memory) at the same origin restore the display of before the first; when no
   pixel under the sprite's set bits was lit and the sprite has an on-screen
   set bit, the first draw leaves v[0xF] = 0 and the second v[0xF] = 1. *)
Before == hist[Len(hist) - 1]

SameDrawTwice ==
    /\ cyc = "unlock"
    /\ Len(hist) >= 2
    /\ ClassOf(Before.inst) = 13
    /\ ClassOf(Last.inst) = 13
    /\ FieldN(Before.inst) = FieldN(Last.inst)
    /\ OriginX(Before) = OriginX(Last)
    /\ OriginY(Before) = OriginY(Last)
    /\ Before.i = Last.i
    /\ Before.memory = Last.memory

C4_DrawTwiceRestores ==
    SameDrawTwice =>
        /\ display = Before.display
        /\ ( /\ SetCells(Before) # {}
             /\ \A c \in SetCells(Before) : ~CellPainted(Before.display, Before, c) )
           => (Last.v[15] = 0 /\ v[15] = 1)

(* a sprite with lit bits drawn twice on a non-blank display *)
C4_Witness ==
    /\ SameDrawTwice
    /\ SetCells(Before) # {}
    /\ Last.display # Before.display
    /\ display = Before.display
    /\ v[15] = 1

(* C5: whatever a 0xD draw has done so far, the display differs from the one
   at its entry only at columns x_start..min(x_start+7, 63) of rows
   y_start..min(y_start+n-1, 31); no bit of any row wraps around an edge. *)
WindowBits(e) ==
    { 63 - x : x \in { OriginX(e) + b : b \in 0..7 } \cap (0..63) }

WindowRows(e) ==
    { OriginY(e) + r : r \in 0..(FieldN(e.inst) - 1) } \cap (0..31)

Changed(a, b) == (a \ b) \cup (b \ a)

C5_DrawStaysInWindow ==
    (Len(hist) > 0 /\ ClassOf(Last.inst) = 13) =>
        \A y \in 0..31 :
            IF y \in WindowRows(Last)
            THEN Changed(display[y], Last.display[y]) \subseteq WindowBits(Last)
            ELSE display[y] = Last.display[y]

(* a sprite cut at the right and at the bottom edge, with set bits in the part
   that was cut and a pixel lit in the last column of the last row *)
C5_Witness ==
    /\ Returned
    /\ ClassOf(Last.inst) = 13
    /\ OriginX(Last) + 7 > 63
    /\ OriginY(Last) + FieldN(Last.inst) - 1 > 31
    /\ \E r \in 0..(FieldN(Last.inst) - 1), b \in 0..7 :
          OriginY(Last) + r <= 31 /\ OriginX(Last) + b > 63 /\ SpriteBit(Last, r, b)
    /\ \E r \in 0..(FieldN(Last.inst) - 1), b \in 0..7 :
          OriginY(Last) + r > 31 /\ SpriteBit(Last, r, b)
    /\ Painted(display, 63, 31)
    /\ ~Painted(Last.display, 63, 31)

(* C6: 0x3xnn fetched at pc = P leaves pc = P + 4 when v[x] = nn and P + 2
   otherwise; 0x4xnn leaves P + 4 when v[x] # nn and P + 2 otherwise; both
   leave the registers, i, memory and the display as they were. *)
C6_SkipRelativeToAdvancedPc ==
    (Returned /\ ClassOf(Last.inst) \in {3, 4}) =>
        LET eq == Last.v[FieldX(Last.inst)] = FieldNN(Last.inst)
            taken == IF ClassOf(Last.inst) = 3 THEN eq ELSE ~eq
        IN  /\ pc = Last.pc + (IF taken THEN 4 ELSE 2)
            /\ v = Last.v
            /\ i = Last.i
            /\ memory = Last.memory
            /\ display = Last.display

(* a taken skip on a register that holds a non-zero value *)
C6_Witness ==
    /\ Returned
    /\ ClassOf(Last.inst) = 3
    /\ Last.v[FieldX(Last.inst)] = 5
    /\ pc = Last.pc + 4

(* C7: 0x7xnn completes with v[x] = (old v[x] + nn) mod 256 and every other
   register as it was. *)
C7_AddImmediateWraps ==
    (Len(hist) > 0 /\ ClassOf(Last.inst) = 7 /\ ~(cyc = "panicked" /\ fault = "index pc"))
        => /\ fault # "add overflow"
           /\ cyc = "unlock" =>
                v = [Last.v EXCEPT ![FieldX(Last.inst)] =
                        (Last.v[FieldX(Last.inst)] + FieldNN(Last.inst)) % 256]

(* C8: an opcode of a class without an arm (0x2, 0x5, 0x9, 0xB, 0xC, 0xE, 0xF)
   leaves the registers, i, memory and the display as they were and pc two
   past the opcode, and its cycle() returns, so that the next cycle fetches the
   next instruction. *)
C8_UnlistedClassOnlyAdvances ==
    (Len(hist) > 0 /\ ClassOf(Last.inst) \in UnlistedClasses) =>
        /\ fault \notin {"add overflow", "index sprite"}
        /\ cyc # "draw"
        /\ cyc = "unlock" =>
              /\ v = Last.v
              /\ i = Last.i
              /\ memory = Last.memory
              /\ display = Last.display
              /\ pc = Last.pc + 2

(* an unlisted opcode run with registers, i and pixels set *)
C8_Witness ==
    /\ Returned
    /\ ClassOf(Last.inst) = 11
    /\ Last.v[0] = 5
    /\ Last.i = 512
    /\ Last.display # EmptyGrid
    /\ pc = Last.pc + 2

(* C9: a cycle() prints the raw opcode exactly when the opcode is outside the
   dispatch table (an unlisted class, or class 0x0 other than 0x00E0), and
   such an opcode changes nothing but pc. *)
C9_DiagnosticForEveryOpcodeOutsideTable ==
    Returned =>
        /\ out = Last.out \o (IF OutsideTable(Last.inst) THEN <<Last.inst>> ELSE <<>>)
        /\ OutsideTable(Last.inst) =>
              /\ v = Last.v
              /\ i = Last.i
              /\ memory = Last.memory
              /\ display = Last.display
              /\ pc = Last.pc + 2

(* C10: a legal ROM is copied unmodified to 0x200.., every other byte and the
   rest of the machine being as constructed; 0x6xnn sets v[x] = nn and 0xAnnn
   sets i = nnn, each leaving pc two past the opcode; the 6-byte ROM
   60 05 61 0A A2 30 has v[0] = 5, v[1] = 10, i = 0x230, pc = 0x206 after three
   cycles. *)
C10_LoadThenRun ==
    /\ main = "spawn" =>
          /\ 512 + Len(bytes) <= 4096
          /\ \A a \in 0..4095 :
                memory[a] = IF a >= 512 /\ a < 512 + Len(bytes) THEN bytes[a - 511] ELSE 0
          /\ pc = 512
          /\ i = 0
          /\ v = [r \in 0..15 |-> 0]
          /\ display = [y \in 0..31 |-> {}]
    /\ (Returned /\ ClassOf(Last.inst) = 6) =>
          /\ v = [Last.v EXCEPT ![FieldX(Last.inst)] = FieldNN(Last.inst)]
          /\ pc = Last.pc + 2
          /\ i = Last.i
    /\ (Returned /\ ClassOf(Last.inst) = 10) =>
          /\ i = FieldNNN(Last.inst)
          /\ pc = Last.pc + 2
          /\ v = Last.v
    /\ (bytes = <<96, 5, 97, 10, 162, 48>> /\ cycles = 3 /\ Len(hist) = 3) =>
          (v[0] = 5 /\ v[1] = 10 /\ i = 560 /\ pc = 518)

(* the 6-byte ROM after its three cycles *)
C10_Witness ==
    /\ bytes = <<96, 5, 97, 10, 162, 48>>
    /\ cycles = 3
    /\ Len(hist) = 3
    /\ v[1] = 10
    /\ i = 560

(* C11: a ROM of a length L with 0x200 + L > 4096 is rejected at the load: main
   panics on the slice range before the cycle thread exists, so no cycle() ever
   runs, and no byte of the ROM is written, inside the memory or outside it. *)
C11_OversizeRomRejectedAtLoad ==
    (512 + Len(bytes) > 4096) =>
        /\ main \in {"load", "panicked"}
        /\ main = "panicked" => fault = "slice range"
        /\ cyc = "unborn"
        /\ cycles = 0
        /\ hist = <<>>
        /\ holder = "none"
        /\ DOMAIN memory = 0..4095
        /\ \A a \in 0..4095 : memory[a] = 0
        /\ pc = 512 /\ i = 0
        /\ display = [y \in 0..31 |-> {}]

(* the load of an oversize ROM that begins with a program has panicked *)
C11_Witness ==
    /\ 512 + Len(bytes) > 4096
    /\ bytes[1] = 96
    /\ main = "panicked"
    /\ fault = "slice range"

(* C12: the fetched opcode is memory[pc] * 256 + memory[pc + 1], and its
   fields are indicator = (op >> 12) & 0xF, x = (op >> 8) & 0xF,
   y = (op >> 4) & 0xF, n = op & 0xF, nn = op & 0xFF, nnn = op & 0xFFF, each
   within its bit width. *)
C12_DecoderFields ==
    Len(hist) > 0 =>
        LET op == Last.inst IN
        /\ op = Last.memory[Last.pc] * 256 + Last.memory[Last.pc + 1]
        /\ inst = op
        /\ Indicator(op) = (op \div 4096) % 16
        /\ X(op) = (op \div 256) % 16
        /\ Y(op) = (op \div 16) % 16
        /\ N(op) = op % 16
        /\ NN(op) = op % 256
        /\ NNN(op) = op % 4096
        /\ {Indicator(op), X(op), Y(op), N(op)} \subseteq 0..15
        /\ NN(op) \in 0..255
        /\ NNN(op) \in 0..4095

(* the word 0xA5C3 fetched: fields 0xA, 0x5, 0xC, 0x3, 0xC3, 0x5C3 *)
C12_Witness ==
    /\ Len(hist) > 0
    /\ Last.memory[Last.pc] = 165
    /\ Last.memory[Last.pc + 1] = 195
    /\ inst = 42435
    /\ X(inst) = 5
    /\ Y(inst) = 12
    /\ NNN(inst) = 1475

(* C13: for every legal ROM neither loop is ever stopped: the cycle thread does
   not end and the render loop is not ended by it. *)
C13_NeitherLoopIsStopped ==
    (512 + Len(bytes) <= 4096) => (main # "panicked" /\ cyc # "panicked")

(* C14: whenever cycle() is about to read memory[pc] and memory[pc + 1], pc is
   even and at least 0x200; so was it at every fetch made. *)
C14_PcEvenAtFetch ==
    /\ cyc = "fetch" => (pc % 2 = 0 /\ pc >= 512)
    /\ \A k \in 1..Len(hist) : hist[k].pc % 2 = 0 /\ hist[k].pc >= 512

(* a fetch that follows a skip not taken and two skips taken *)
C14_Witness ==
    /\ cyc = "fetch"
    /\ pc = 530
    /\ Len(hist) >= 3
    /\ Last.pc = 526
    /\ Before.pc = 522
    /\ ClassOf(Last.inst) = 4
    /\ ClassOf(Before.inst) = 3

(* C15: 0x1nnn and 0x00E0 change nothing but pc, which is left two past the
   opcode: pc is not set to nnn, lit pixels stay lit, and nothing is printed. *)
C15_JumpAndClearAreNoOps ==
    (Returned /\ (ClassOf(Last.inst) = 1 \/ Last.inst = 224)) =>
        /\ pc = Last.pc + 2
        /\ display = Last.display
        /\ v = Last.v
        /\ i = Last.i
        /\ memory = Last.memory
        /\ out = Last.out

(* 0x00E0 run on a display with lit pixels *)
C15_Witness ==
    /\ Returned
    /\ Last.inst = 224
    /\ Last.display # EmptyGrid
    /\ display = Last.display
    /\ Last.v[0] = 5

(* C16: 0x8xyn, whatever n, sets v[x] to the prior v[y], leaves every other
   register as it was and pc two past the opcode. *)
C16_ClassEightCopies ==
    (Returned /\ ClassOf(Last.inst) = 8) =>
        /\ v = [Last.v EXCEPT ![FieldX(Last.inst)] = Last.v[FieldY(Last.inst)]]
        /\ pc = Last.pc + 2
        /\ i = Last.i
        /\ display = Last.display

(* 0x8104 (the add of the full instruction set) copies v[0] and leaves VF *)
C16_Witness ==
    /\ Returned
    /\ Last.inst = 33028
    /\ Last.v[0] = 5
    /\ Last.v[1] = 0
    /\ v[1] = 5
    /\ v[15] = 9

(* C17: a 0xD draw is positioned by v[x] mod 64 and v[y] mod 32 as they were
   at its entry, also when x or y is 0xF; afterwards v[0xF] holds the collision
   result alone and the other registers are as before; with n = 0 no pixel
   changes and v[0xF] is 0. *)
C17_OriginReadBeforeFlagCleared ==
    (Len(hist) > 0 /\ ClassOf(Last.inst) = 13 /\ cyc \in {"draw", "unlock"}) =>
        /\ x_start = Last.v[FieldX(Last.inst)] % 64
        /\ y_start = Last.v[FieldY(Last.inst)] % 32
        /\ \A r \in 0..14 : v[r] = Last.v[r]
        /\ cyc = "unlock" =>
              /\ \A c \in SetCells(Last) :
                    CellPainted(display, Last, c) # CellPainted(Last.display, Last, c)
              /\ v[15] = IF \E c \in SetCells(Last) : CellPainted(Last.display, Last, c)
                         THEN 1 ELSE 0
              /\ FieldN(Last.inst) = 0 => (display = Last.display /\ v[15] = 0)

(* a sprite positioned by VF = 35: drawn at column 35, row 3, no collision *)
C17_Witness ==
    /\ Returned
    /\ ClassOf(Last.inst) = 13
    /\ FieldX(Last.inst) = 15
    /\ FieldY(Last.inst) = 15
    /\ Last.v[15] = 35
    /\ x_start = 35
    /\ y_start = 3
    /\ v[15] = 0
    /\ \E b \in 0..7 : Painted(display, 35 + b, 3)

(* C18: the render loop changes nothing of the machine, whatever the
   interleaving: the machine at the entry of the first cycle() is the loaded
   one, the machine at the entry of each later cycle() and after the latest one
   is what one uninterrupted cycle() makes of the machine at the entry of the
   cycle before, and a cycle() panics exactly when the uninterrupted one does. *)
MachineOf(e) ==
    [v |-> e.v, pc |-> e.pc, i |-> e.i, display |-> e.display, out |-> e.out,
     ok |-> TRUE]

MachineNow ==
    [v |-> v, pc |-> pc, i |-> i, display |-> display, out |-> out, ok |-> TRUE]

C18_SnapshotsDoNotInfluenceExecution ==
    /\ Len(hist) = 1 =>
          /\ MachineOf(Last) =
                 [v |-> [r \in 0..15 |-> 0], pc |-> 512, i |-> 0,
                  display |-> [y \in 0..31 |-> {}], out |-> <<>>, ok |-> TRUE]
          /\ Last.memory = memory
    /\ Len(hist) >= 2 =>
          /\ MachineOf(Last) = CycleResult(Before, overflow_checks)
          /\ Last.memory = Before.memory
    /\ (Len(hist) > 0 /\ cyc \in {"unlock", "lock", "fetch"}) =>
          /\ MachineNow = CycleResult(Last, overflow_checks)
          /\ memory = Last.memory
    /\ (Len(hist) > 0 /\ cyc = "panicked" /\ fault \in {"add overflow", "index sprite"}) =>
          ~CycleResult(Last, overflow_checks).ok

(* snapshots were taken between the cycles of a program that goes on drawing *)
C18_Witness ==
    /\ Returned
    /\ Len(hist) >= 3
    /\ grid = {Last.display}
    /\ Last.display # Before.display
    /\ display # Last.display
    /\ Last.display # EmptyGrid

(* C19: once the ROM is loaded the memory is the loaded image in every state,
   whatever cycles have run: zero below 0x200, the ROM bytes from 0x200 on,
   zero after them; no step after the load changes a byte of it. *)
C19_MemoryReadOnlyOnceLoaded ==
    /\ [](main = "spawn" =>
            \A a \in 0..4095 :
                memory[a] = IF a >= 512 /\ a < 512 + Len(bytes) THEN bytes[a - 511]
                            ELSE 0)
    /\ [][main # "load" => memory' = memory]_vars
    /\ [](\A a \in 0..511 : memory[a] = 0)

(* a sprite stored in the ROM has been drawn, after other cycles, and the
   memory still holds it *)
C19_Witness ==
    /\ Returned
    /\ Len(hist) >= 3
    /\ ClassOf(Last.inst) = 13
    /\ Last.i >= 512
    /\ memory[Last.i] # 0
    /\ display # Last.display
    /\ memory[Last.i] = bytes[Last.i - 511]

(* C20: pc only moves forward: a cycle() that returns has raised pc by 2, or by
   4 exactly when it ran a 0x3 skip on equal or a 0x4 skip on unequal; after k
   completed cycles 0x200 + 2k <= pc <= 0x200 + 4k; and the addresses fetched
   are strictly increasing, so none is fetched twice. *)
SkipTaken(e) ==
    \/ ClassOf(e.inst) = 3 /\ e.v[FieldX(e.inst)] = FieldNN(e.inst)
    \/ ClassOf(e.inst) = 4 /\ e.v[FieldX(e.inst)] # FieldNN(e.inst)

C20_PcOnlyMovesForward ==
    /\ Returned =>
          /\ pc - Last.pc \in {2, 4}
          /\ pc - Last.pc = 4 <=> SkipTaken(Last)
          /\ 512 + 2 * (cycles + 1) <= pc
          /\ pc <= 512 + 4 * (cycles + 1)
    /\ cyc \in {"lock", "fetch"} =>
          /\ 512 + 2 * cycles <= pc
          /\ pc <= 512 + 4 * cycles
    /\ \A j \in 1..Len(hist) : \A k \in 1..Len(hist) :
          j < k => hist[j].pc < hist[k].pc
    /\ (cyc \in {"lock", "fetch"} /\ Len(hist) > 0) => Last.pc < pc

(* three cycles and more are completed, the latest with a skip taken and the
   one before with a skip not taken, after a jump opcode earlier in the run *)
C20_Witness ==
    /\ cyc = "lock"
    /\ cycles >= 3
    /\ Len(hist) >= 3
    /\ 512 + 2 * cycles < pc
    /\ pc < 512 + 4 * cycles
    /\ SkipTaken(Last)
    /\ pc = Last.pc + 4
    /\ ClassOf(Before.inst) \in {3, 4}
    /\ ~SkipTaken(Before)
    /\ \E k \in 1..Len(hist) : ClassOf(hist[k].inst) = 1

====
